---------------------------- MODULE Spec2Model ----------------------------
(***************************************************************************)
(* Batched minesweeper engine of ClaudioPaterniti/MinesweeperLearning.      *)
(*                                                                         *)
(*   src/src/game.py  class Game: move, open_zero, random_open,             *)
(*                    random_flags, reset, __getitem__, scores, ...         *)
(*   src/game.py      class Game (earlier engine): open, the recursive      *)
(*                    open_zero cascade, reset                              *)
(*                                                                         *)
(* A binary (n, rows, columns) numpy array is a sequence, indexed by the    *)
(* slot 1..n, of the set of flat cells r*columns + c that hold a 1.         *)
(* A boolean (n) array is a sequence of booleans.                           *)
(***************************************************************************)
EXTENDS Integers, Sequences, FiniteSets, TLC

\* ------------------------------------------------------------------ bounds
\* Calls that change a store (move, open, open_zero, reset) made in one
\* behaviour.
MaxCalls == 2
\* Cells one slot's request (reveal set plus mark set) may name in one move.
MaxReq == 2
\* The same, in the behaviours that also select a sub-batch.
SelReq == 1
\* Hazards per slot of the earlier engine's boards (its constructor takes one
\* count for the whole batch): in the behaviours of several calls, and in
\* those of one cascade on a fresh board.
MaxMines == 1
CascadeMines == 2
\* How far below 0 and above rows*columns the hazard counts given to the
\* constructors go, in the behaviours that construct with any count.
CountSlack == 1
\* Board shapes <<rows, columns>> and batch sizes n that Game(rows, columns,
\* mines_n, n) of src/src/game.py is constructed with.
Shapes == {<<1, 2>>, <<2, 1>>}
BatchSizes == {1, 2}
\* <<n, rows, columns>> that Game(rows, columns, mines, n) of src/game.py is
\* constructed with.
OldConfigs == {<<1, 2, 2>>, <<1, 1, 3>>, <<2, 1, 2>>}
\* The batch sizes given to reset(n) of src/game.py on a board of R rows and
\* C columns: up to the largest batch OldConfigs has for that board.
ResetSizes(R, C) ==
    UNION {1 .. cfg[1] : cfg \in {x \in OldConfigs : x[2] = R /\ x[3] = C}}
CascadeConfigs == {<<1, 3, 3>>, <<1, 2, 3>>, <<1, 3, 2>>, <<2, 2, 2>>}

VARIABLES
    n,                  \* Game.n
    rows, columns,      \* Game.rows, Game.columns
    mines_n,            \* Game.mines_n: slot -> the hazard count asked for
    mines,              \* Game.mines: slot -> set of hazard cells
    open_cells,         \* Game.open_cells
    flags,              \* Game.flags
    active_games,       \* Game.active_games
    won,                \* Game.won
    last_opened,        \* Game.last_opened
    last_flagged,       \* Game.last_flagged
    sel,                \* the store returned by the last __getitem__, if any
    old,                \* the Game object of src/game.py (the earlier engine)
    op,                 \* the call made last: its name, arguments and outcome
    calls               \* number of calls made so far

vars == <<n, rows, columns, mines_n, mines, open_cells, flags, active_games, won,
          last_opened, last_flagged, sel, old, op, calls>>

\* ------------------------------------------------------------ board helpers
Cells(r, c) == 0 .. (r * c - 1)

Slots(b) == 1 .. Len(b.active_games)

\* Faulty variant: the column is not checked, so a shift past the end of a
\* row reads the start of the next one.
PadShift_wrap(m, r, c, i, j, R, C) ==
    IF r + i >= 0 /\ r + i < R /\ ((r + i) * C + (c + j)) \in m
    THEN 1 ELSE 0

\* np.pad(mines)[:, 1+i : rows+1+i, 1+j : columns+1+j] read at cell (r, c):
\* the value of mines at (r+i, c+j), 0 outside the board.
PadShift(m, r, c, i, j, R, C) ==
    IF r + i >= 0 /\ r + i < R /\ c + j >= 0 /\ c + j < C
       /\ ((r + i) * C + (c + j)) \in m
    THEN 1 ELSE 0

\* Game._compute_number_cells for one slot: cell -> number, -1 on a mine.
compute_number_cells(m, R, C) ==
    [x \in Cells(R, C) |->
        LET r == x \div C
            c == x % C
            offs == (-1 .. 1) \X (-1 .. 1)
        IN IF x \in m THEN -1
           ELSE Cardinality({o \in offs :
                                PadShift(m, r, c, o[1], o[2], R, C) = 1})]

\* -------------------------------------------------------------------- move
\* Rank of slot i among the slots of mask that are TRUE (1-based): the row of
\* a[mask] that slot i is read from or written to.
Rank(mask, i) == Cardinality({j \in 1 .. i : mask[j]})

CountTrue(mask) == Cardinality({j \in 1 .. Len(mask) : mask[j]})

\* a[mask] for a boolean mask over the first axis.
Compress(a, mask) ==
    LET keep == {j \in 1 .. Len(a) : mask[j]}
    IN [p \in 1 .. Cardinality(keep) |->
            a[CHOOSE j \in keep : Rank(mask, j) = p]]

\* a[mask] = v, row by row.
MaskAssign(a, mask, v) ==
    [i \in 1 .. Len(a) |-> IF mask[i] THEN v[Rank(mask, i)] ELSE a[i]]

\* Faulty variant: a reveal of a hazard is let through
correct_open_lenient(m, req) == TRUE

\* Faulty variant: the request is added to what was recorded before
record_request_merged(last, act, req) ==
    [i \in 1 .. Len(last) |->
        IF act[i] THEN last[i] \cup req[Rank(act, i)] ELSE last[i]]

\* lines 86-87: self.last_opened[self.active_games] = to_open
record_request(last, act, req) == MaskAssign(last, act, req)

\* line 88: not any(mines * to_open)
correct_open(m, req) == (m \cap req) = {}

\* Faulty variant: a mark on a safe cell is let through
correct_flag_lenient(m, req, all) == TRUE

\* line 89: not any((1 - mines) * to_flag)
correct_flag(m, req, all) == ((all \ m) \cap req) = {}

\* Faulty variant: the request overwrites the grid
bitwise_or_overwrite(a, b) == b

\* Faulty variant: ^ for |: a cell requested again is toggled off
bitwise_xor(a, b) == (a \ b) \cup (b \ a)

\* np.bitwise_or of two binary grids
bitwise_or(a, b) == a \cup b

\* Faulty variant: the requests are not filtered by correct
accepted_rows_unfiltered(req, correct) == req

\* lines 92-93: to_open[correct], the requests of the accepted slots
accepted_rows(req, correct) == Compress(req, correct)

\* line 94: np.all(open_cells + mines, axis=(1,2)) for one slot
all_open_or_mine(o, m, all) == \A x \in all : x \in o \/ x \in m

\* Game.move on the arrays b of a store, lines 86-96.  to_open and to_flag
\* have one row per active slot.
move(b, to_open, to_flag, all) ==
    LET act0 == b.active_games
        k == CountTrue(act0)
        mact == Compress(b.mines, act0)
        lo == record_request(b.last_opened, act0, to_open)
        lf == record_request(b.last_flagged, act0, to_flag)
        correct == [j \in 1 .. k |->
                        correct_open(mact[j], to_open[j])
                        /\ correct_flag(mact[j], to_flag[j], all)]
        act1 == MaskAssign(act0, act0, correct)
        oc == MaskAssign(b.open_cells, act1,
                  [p \in 1 .. CountTrue(act1) |->
                      bitwise_or(Compress(b.open_cells, act1)[p],
                                 accepted_rows(to_open, correct)[p])])
        fl == MaskAssign(b.flags, act1,
                  [p \in 1 .. CountTrue(act1) |->
                      bitwise_or(Compress(b.flags, act1)[p],
                                 accepted_rows(to_flag, correct)[p])])
        w == [i \in 1 .. Len(act0) |-> all_open_or_mine(oc[i], b.mines[i], all)]
        act2 == [i \in 1 .. Len(act0) |-> act1[i] /\ ~w[i]]
    IN [b |-> [mines |-> b.mines, open_cells |-> oc, flags |-> fl,
               active_games |-> act2, won |-> w,
               last_opened |-> lo, last_flagged |-> lf],
        ret |-> correct]

\* The call fails with a numpy shape error before it changes anything: the
\* request has not one row per active slot (line 86 cannot broadcast it, or,
\* for a single row against no active slot, line 92 cannot index it).
move_raises(b, to_open) == Len(to_open) # CountTrue(b.active_games)

\* move(to_open) with to_flag left None (line 85: zeros_like(to_open)), as
\* random_open calls it with one row per slot.  With fewer active slots
\* than rows the call raises before it changes anything (line 86, or line
\* 92 for one row against no active slot).
move_to_open(b, to_open, all) ==
    IF move_raises(b, to_open)
    THEN [b |-> b, ret |-> <<>>, raised |-> TRUE]
    ELSE [b |-> move(b, to_open, [j \in DOMAIN to_open |-> {}], all).b,
          ret |-> move(b, to_open, [j \in DOMAIN to_open |-> {}], all).ret,
          raised |-> FALSE]

\* move(to_flag=to_flag) with to_open left None (line 84: zeros, one row per
\* active slot), as random_flags calls it with one row per slot.  Line 86
\* records the empty reveal request of the active slots; with fewer active
\* slots than rows the call then raises (line 87, or line 93 for one row
\* against no active slot), leaving that change behind.
move_to_flag(b, to_flag, all) ==
    LET k == CountTrue(b.active_games)
        to_open == [j \in 1 .. k |-> {}]
    IN IF Len(to_flag) # k
       THEN [b |-> [b EXCEPT !.last_opened =
                        record_request(b.last_opened, b.active_games, to_open)],
             ret |-> <<>>, raised |-> TRUE]
       ELSE [b |-> move(b, to_open, to_flag, all).b,
             ret |-> move(b, to_open, to_flag, all).ret,
             raised |-> FALSE]

\* lines 112-113: (rng.random(shape) < rate) * (1 - mines): per slot, any
\* set of non-hazard cells.
random_open_requests(m, all) ==
    {q \in [1 .. Len(m) -> SUBSET all] :
        \A i \in 1 .. Len(m) : q[i] \cap m[i] = {}}

\* lines 119-120: (rng.random(shape) < rate) * mines: per slot, any set of
\* hazard cells.
random_flags_requests(m, all) ==
    {q \in [1 .. Len(m) -> SUBSET all] :
        \A i \in 1 .. Len(m) : q[i] \subseteq m[i]}

\* --------------------------------------------------------------- open_zero
\* line 100: (numbers + 10*mines).min(axis=(1,2)) for one slot
mins(m, R, C) ==
    LET num == compute_number_cells(m, R, C)
        v == [x \in Cells(R, C) |-> num[x] + (IF x \in m THEN 10 ELSE 0)]
    IN CHOOSE a \in {v[x] : x \in Cells(R, C)} :
            \A x \in Cells(R, C) : a <= v[x]

\* lines 101-102: the flat cells argmax may return for one slot.  The random
\* weights are positive on the cells whose number equals the minimum, so the
\* argmax is one of them; when no cell qualifies every weight is 0 and argmax
\* returns index 0.
random_zero(m, R, C) ==
    LET num == compute_number_cells(m, R, C)
        cand == {x \in Cells(R, C) : num[x] = mins(m, R, C)}
    IN IF cand = {} THEN {0} ELSE cand

\* lines 103-106: h_ids, w_ids and the one-hot grid written at (h, w)
one_hot(z, C) == {(z \div C) * C + (z % C)}

\* ------------------------------------------------------------------- reset
\* Game.reset, lines 56-62, on the arrays of a store
reset(b) ==
    [mines |-> b.mines,
     open_cells |-> [i \in Slots(b) |-> {}],
     flags |-> [i \in Slots(b) |-> {}],
     active_games |-> [i \in Slots(b) |-> TRUE],
     won |-> [i \in Slots(b) |-> FALSE],
     last_opened |-> [i \in Slots(b) |-> {}],
     last_flagged |-> [i \in Slots(b) |-> {}]]

\* ------------------------------------------------------------------ scores
\* a / b of numpy on integer arrays (true division, float64): a division by
\* zero raises nothing, it gives nan for 0/0 and inf otherwise, with a
\* RuntimeWarning.  A finite quotient is kept as the pair num, den.
true_divide(a, b) ==
    IF b # 0 THEN [kind |-> "ratio", num |-> a, den |-> b]
    ELSE IF a = 0 THEN [kind |-> "nan", num |-> 0, den |-> 0]
    ELSE [kind |-> "inf", num |-> a, den |-> 0]

\* Game.scores, lines 72-76, on the arrays b of a store with hazard counts
\* mn and slot count self_n.  The (k) sums of the masked slots are divided by
\* the (n) array size - mines_n: numpy broadcasts a single sum against every
\* slot, and raises ValueError when k and n differ and neither is 1.
scores(b, mn, self_n, final_only, size) ==
    LET mask == IF final_only
                THEN [i \in 1 .. Len(b.active_games) |-> ~b.active_games[i]]
                ELSE [i \in 1 .. self_n |-> TRUE]
        sums == [p \in 1 .. CountTrue(mask) |->
                    Cardinality(Compress(b.open_cells, mask)[p])]
        to_open == [i \in 1 .. Len(mn) |-> size - mn[i]]
        k == Len(sums)
        m == Len(to_open)
    IN IF Len(mask) # Len(b.open_cells) \/ (k # m /\ k # 1 /\ m # 1)
       THEN [raised |-> TRUE, val |-> <<>>]
       ELSE [raised |-> FALSE,
             val |-> [j \in 1 .. (IF k = 1 THEN m ELSE k) |->
                        true_divide(sums[IF k = 1 THEN 1 ELSE j],
                                    to_open[IF m = 1 THEN 1 ELSE j])]]

\* -------------------------------------------------------------- game_state
\* Game.game_state, lines 64-70, on the arrays b of a store:
\* numbers*open_cells + 9*(1-open_cells) + flags, for every slot or for the
\* active ones.
game_state(b, R, C, active_only) ==
    LET bit(x, a) == IF x \in a THEN 1 ELSE 0
        state == [i \in 1 .. Len(b.mines) |->
                    [x \in Cells(R, C) |->
                        compute_number_cells(b.mines[i], R, C)[x]
                            * bit(x, b.open_cells[i])
                        + 9 * (1 - bit(x, b.open_cells[i]))
                        + bit(x, b.flags[i])]]
    IN IF active_only THEN Compress(state, b.active_games) ELSE state

\* ------------------------------------------------------------ losing_moves
\* Game.losing_moves, lines 124-126, for one slot:
\* last_flagged*(1-mines) - last_opened*mines, +1 on a wrong flag and -1 on
\* a wrong opening.
losing_moves(m, lo, lf, all) ==
    [x \in all |->
        (IF x \in lf /\ x \notin m THEN 1 ELSE 0)
        - (IF x \in lo /\ x \in m THEN 1 ELSE 0)]

\* ------------------------------------------------------------- the store
All == Cells(rows, columns)

\* The arrays of the store built by the constructor.
Store ==
    [mines |-> mines, open_cells |-> open_cells, flags |-> flags,
     active_games |-> active_games, won |-> won,
     last_opened |-> last_opened, last_flagged |-> last_flagged]

SetStore(b) ==
    /\ mines' = b.mines
    /\ open_cells' = b.open_cells
    /\ flags' = b.flags
    /\ active_games' = b.active_games
    /\ won' = b.won
    /\ last_opened' = b.last_opened
    /\ last_flagged' = b.last_flagged

\* The requests a caller passes to move: one row per active slot, each row
\* naming at most MaxReq cells.
Requests(k, all, m) ==
    {q \in [1 .. k -> (SUBSET all) \X (SUBSET all)] :
        \A j \in 1 .. k :
            Cardinality(q[j][1]) + Cardinality(q[j][2]) <= m}

\* What is recorded of a call: its name, the store it was made on ("A" the
\* constructed one, "G" the selected one), the active mask when it was made,
\* its arguments, what it returned, whether it raised, and the slots for
\* which it repeats the request of the move just before it.
Call(name, store, act, to_open, to_flag, ret, raised, again) ==
    [name |-> name, store |-> store, act |-> act, to_open |-> to_open,
     to_flag |-> to_flag, ret |-> ret, raised |-> raised, again |-> again]

\* The slots, active before and after the last call, a move that accepted
\* them, for which the request (to_open, to_flag) on store repeats that
\* move's request.
Again(store, act, to_open, to_flag) ==
    {i \in 1 .. Len(act) :
        /\ op.name = "move" /\ op.store = store
        /\ act[i] /\ op.act[i] /\ op.ret[Rank(op.act, i)]
        /\ to_open[Rank(act, i)] = op.to_open[Rank(op.act, i)]
        /\ to_flag[Rank(act, i)] = op.to_flag[Rank(op.act, i)]}

EmptyBatch ==
    [mines |-> <<>>, open_cells |-> <<>>, flags |-> <<>>, active_games |-> <<>>,
     won |-> <<>>, last_opened |-> <<>>, last_flagged |-> <<>>]

\* The earlier engine is not part of this behaviour.
NoOld == [n |-> 0]

\* No store has been selected yet.
NoSel == [mode |-> "none", key |-> <<>>, n |-> 0, mines_n |-> <<>>,
          won_shared |-> FALSE, own |-> EmptyBatch]

\* utils.random_binary_matrices, src/src/utils.py lines 16-21:
\* m[i, :ones] = 1 on a row of size cells sets the cells of the slice :ones,
\* which numpy clips to the row: min(ones, size) cells for ones >= 0, and
\* all but the last -ones cells for ones < 0.
slice_ones(size, ones) ==
    IF ones >= 0 THEN (IF ones < size THEN ones ELSE size)
    ELSE (IF size + ones > 0 THEN size + ones ELSE 0)

\* utils.random_binary_matrices, lines 8-25: the matrices rng.permuted may
\* leave, every placement of slice_ones ones in each slot.  It raises
\* nothing, whatever the counts.
random_binary_matrices(k, R, C, ones) ==
    {m \in [1 .. k -> SUBSET Cells(R, C)] :
        \A i \in 1 .. k : Cardinality(m[i]) = slice_ones(R * C, ones[i])}

\* Game.__init__, lines 16-29, for hazard counts lo .. size + hi per slot.
\* Batches of several slots are built on the boards of one row.
InitOn(lo, hi) ==
    /\ \E s \in Shapes : rows = s[1] /\ columns = s[2]
    /\ n \in BatchSizes
    /\ n > 1 => rows = 1
    /\ mines_n \in [1 .. n -> lo .. (rows * columns + hi)]
    /\ mines \in random_binary_matrices(n, rows, columns, mines_n)
    /\ open_cells = [i \in 1 .. n |-> {}]
    /\ flags = [i \in 1 .. n |-> {}]
    /\ active_games = [i \in 1 .. n |-> TRUE]
    /\ won = [i \in 1 .. n |-> FALSE]
    /\ last_opened = [i \in 1 .. n |-> {}]
    /\ last_flagged = [i \in 1 .. n |-> {}]
    /\ sel = NoSel
    /\ old = NoOld
    /\ op = Call("init", "A", <<>>, <<>>, <<>>, <<>>, FALSE, {})
    /\ calls = 0

\* Game.__init__ with a hazard count of 0 .. rows*columns in every slot.
Init == InitOn(0, 0)

\* self.won = np.all(...) (line 94) binds a new array to the store: a selected
\* store whose won still views the old array keeps the old values.
WonRebound ==
    IF sel.mode = "view" /\ sel.won_shared
    THEN [sel EXCEPT !.won_shared = FALSE,
                     !.own.won = [j \in DOMAIN sel.key |-> won[sel.key[j]]]]
    ELSE sel

\* game.move(to_open, to_flag) on the constructed store
MoveReq(m) ==
    /\ n > 0
    /\ calls < MaxCalls
    /\ \E q \in Requests(CountTrue(active_games), All, m) :
        LET to_open == [j \in DOMAIN q |-> q[j][1]]
            to_flag == [j \in DOMAIN q |-> q[j][2]]
            r == move(Store, to_open, to_flag, All)
        IN /\ SetStore(r.b)
           /\ op' = Call("move", "A", active_games, to_open, to_flag, r.ret, FALSE,
                     Again("A", active_games, to_open, to_flag))
    /\ sel' = WonRebound
    /\ calls' = calls + 1
    /\ UNCHANGED <<mines_n, n, old, rows, columns>>

\* game.open_zero() on the constructed store, lines 98-108
OpenZero ==
    /\ n > 0
    /\ calls < MaxCalls
    /\ \E z \in [1 .. n -> All] :
        /\ \A i \in 1 .. n : z[i] \in random_zero(mines[i], rows, columns)
        /\ LET to_open == [i \in 1 .. n |-> one_hot(z[i], columns)]
               to_flag == [i \in 1 .. n |-> {}]
           IN IF move_raises(Store, to_open)
              THEN /\ UNCHANGED <<mines, open_cells, flags, active_games, won,
                                  last_opened, last_flagged, sel>>
                   /\ op' = Call("open_zero", "A", active_games, to_open, to_flag,
                             <<>>, TRUE, {})
              ELSE LET r == move(Store, to_open, to_flag, All)
                   IN /\ SetStore(r.b)
                      /\ sel' = WonRebound
                      /\ op' = Call("open_zero", "A", active_games, to_open,
                                to_flag, r.ret, FALSE, {})
    /\ calls' = calls + 1
    /\ UNCHANGED <<mines_n, n, old, rows, columns>>

\* game.reset() on the constructed store: every array is filled in place
Reset ==
    /\ n > 0
    /\ calls < MaxCalls
    /\ SetStore(reset(Store))
    /\ op' = Call("reset", "A", active_games, <<>>, <<>>, <<>>, FALSE, {})
    /\ calls' = calls + 1
    /\ UNCHANGED <<mines_n, n, old, rows, columns, sel>>

\* game.random_open(rate) on the constructed store, lines 110-115
RandomOpen ==
    /\ n > 0
    /\ calls < MaxCalls
    /\ \E to_open \in random_open_requests(mines, All) :
        \E r \in {move_to_open(Store, to_open, All)} :
            /\ SetStore(r.b)
            /\ sel' = IF r.raised THEN sel ELSE WonRebound
            /\ op' = Call("random_open", "A", active_games, to_open,
                      [j \in DOMAIN to_open |-> {}], r.ret, r.raised, {})
    /\ calls' = calls + 1
    /\ UNCHANGED <<mines_n, n, old, rows, columns>>

\* game.random_flags(rate) on the constructed store, lines 117-122
RandomFlags ==
    /\ n > 0
    /\ calls < MaxCalls
    /\ \E to_flag \in random_flags_requests(mines, All) :
        \E r \in {move_to_flag(Store, to_flag, All)} :
            /\ SetStore(r.b)
            /\ sel' = IF r.raised THEN sel ELSE WonRebound
            /\ op' = Call("random_flags", "A", active_games,
                      [j \in 1 .. CountTrue(active_games) |-> {}], to_flag,
                      r.ret, r.raised, {})
    /\ calls' = calls + 1
    /\ UNCHANGED <<mines_n, n, old, rows, columns>>

Move == MoveReq(MaxReq)

Next == Move \/ OpenZero \/ RandomOpen \/ RandomFlags \/ Reset

Spec == Init /\ [][Next]_vars

\* ------------------------------------------------------------ __getitem__
\* The keys of game[key]: an integer i (turned into slice(i, i+1) on line 33),
\* the slice 0:n, and index lists.  A key is written as the sequence of the
\* slots it selects.
IntKeys == {<<i>> : i \in 1 .. n}
SliceKeys == {[j \in 1 .. n |-> j]}
ListKeys == {<<n>>, [j \in 1 .. n |-> n + 1 - j]}

\* a[key]
Take(a, key) == [j \in DOMAIN key |-> a[key[j]]]

TakeStore(b, key) ==
    [mines |-> Take(b.mines, key), open_cells |-> Take(b.open_cells, key),
     flags |-> Take(b.flags, key), active_games |-> Take(b.active_games, key),
     won |-> Take(b.won, key), last_opened |-> Take(b.last_opened, key),
     last_flagged |-> Take(b.last_flagged, key)]

\* Game.__getitem__, lines 31-45.  Basic indexing (an integer or a slice)
\* makes every array of the new store a view of the original's array; an
\* index list makes copies.  g.n is read from g.mines (line 36) before
\* g.mines is replaced (line 37), while it is still the empty array of
\* Game(rows, columns, 1, 0).
getitem(b, mn, key, basic) ==
    IF basic
    THEN [mode |-> "view", key |-> key, n |-> 0, mines_n |-> Take(mn, key),
          won_shared |-> TRUE, own |-> EmptyBatch]
    ELSE [mode |-> "copy", key |-> key, n |-> 0, mines_n |-> Take(mn, key),
          won_shared |-> FALSE, own |-> TakeStore(b, key)]

\* The arrays the selected store reads.
SelStore ==
    IF sel.mode = "copy" THEN sel.own
    ELSE [TakeStore(Store, sel.key) EXCEPT
            !.won = IF sel.won_shared THEN Take(won, sel.key) ELSE sel.own.won]

\* a with a[key[j]] = v[j]: a write through a view
Put(a, key, v) ==
    [i \in DOMAIN a |->
        IF \E j \in DOMAIN key : key[j] = i
        THEN v[CHOOSE j \in DOMAIN key : key[j] = i] ELSE a[i]]

\* The in-place writes of the selected store (every array but won, which move
\* rebinds) land in its own arrays (copy) or in the original's (view).
SelWrite(b) ==
    IF sel.mode = "copy"
    THEN UNCHANGED <<mines, open_cells, flags, active_games, last_opened,
                     last_flagged>>
    ELSE /\ open_cells' = Put(open_cells, sel.key, b.open_cells)
         /\ flags' = Put(flags, sel.key, b.flags)
         /\ active_games' = Put(active_games, sel.key, b.active_games)
         /\ last_opened' = Put(last_opened, sel.key, b.last_opened)
         /\ last_flagged' = Put(last_flagged, sel.key, b.last_flagged)
         /\ UNCHANGED mines

GetItem ==
    /\ sel.mode = "none"
    /\ \/ \E key \in IntKeys \cup SliceKeys : sel' = getitem(Store, mines_n, key, TRUE)
       \/ \E key \in ListKeys : sel' = getitem(Store, mines_n, key, FALSE)
    /\ op' = Call("getitem", "A", active_games, <<>>, <<>>, <<>>, FALSE, {})
    /\ UNCHANGED <<calls, mines_n, n, old, rows, columns, mines, open_cells, flags, active_games, won,
                   last_opened, last_flagged>>

\* g.move(to_open, to_flag) on the selected store
SelMove ==
    /\ calls < MaxCalls
    /\ sel.mode # "none"
    /\ \E q \in Requests(CountTrue(SelStore.active_games), All, SelReq) :
        LET to_open == [j \in DOMAIN q |-> q[j][1]]
            to_flag == [j \in DOMAIN q |-> q[j][2]]
            r == move(SelStore, to_open, to_flag, All)
        IN /\ SelWrite(r.b)
           /\ sel' = IF sel.mode = "copy"
                     THEN [sel EXCEPT !.own = r.b]
                     ELSE [sel EXCEPT !.own.won = r.b.won, !.won_shared = FALSE]
           /\ op' = Call("move", "G", SelStore.active_games, to_open, to_flag,
                     r.ret, FALSE,
                     Again("G", SelStore.active_games, to_open, to_flag))
    /\ calls' = calls + 1
    /\ UNCHANGED <<mines_n, n, old, rows, columns, won>>

\* What a call of move made for the selected store leaves in sel: its own
\* arrays (copy), or the won array that line 94 bound to it (view); a call
\* that raised before line 94 binds nothing.
SelAfter(r) ==
    IF sel.mode = "copy" THEN [sel EXCEPT !.own = r.b]
    ELSE IF r.raised THEN sel
    ELSE [sel EXCEPT !.own.won = r.b.won, !.won_shared = FALSE]

\* g.random_open(rate) on the selected store
SelRandomOpen ==
    /\ calls < MaxCalls
    /\ sel.mode # "none"
    /\ \E to_open \in random_open_requests(SelStore.mines, All) :
        \E r \in {move_to_open(SelStore, to_open, All)} :
            /\ SelWrite(r.b)
            /\ sel' = SelAfter(r)
            /\ op' = Call("random_open", "G", SelStore.active_games, to_open,
                      [j \in DOMAIN to_open |-> {}], r.ret, r.raised, {})
    /\ calls' = calls + 1
    /\ UNCHANGED <<mines_n, n, old, rows, columns, won>>

\* g.random_flags(rate) on the selected store
SelRandomFlags ==
    /\ calls < MaxCalls
    /\ sel.mode # "none"
    /\ \E to_flag \in random_flags_requests(SelStore.mines, All) :
        \E r \in {move_to_flag(SelStore, to_flag, All)} :
            /\ SelWrite(r.b)
            /\ sel' = SelAfter(r)
            /\ op' = Call("random_flags", "G", SelStore.active_games,
                      [j \in 1 .. CountTrue(SelStore.active_games) |-> {}],
                      to_flag, r.ret, r.raised, {})
    /\ calls' = calls + 1
    /\ UNCHANGED <<mines_n, n, old, rows, columns, won>>

\* g.reset() on the selected store
SelReset ==
    /\ n > 0
    /\ calls < MaxCalls
    /\ sel.mode # "none"
    /\ LET b == reset(SelStore)
       IN /\ SelWrite(b)
          /\ IF sel.mode = "copy"
             THEN sel' = [sel EXCEPT !.own = b] /\ UNCHANGED won
             ELSE IF sel.won_shared
             THEN won' = Put(won, sel.key, b.won) /\ UNCHANGED sel
             ELSE sel' = [sel EXCEPT !.own.won = b.won] /\ UNCHANGED won
    /\ op' = Call("reset", "G", SelStore.active_games, <<>>, <<>>, <<>>,
              FALSE, {})
    /\ calls' = calls + 1
    /\ UNCHANGED <<mines_n, n, old, rows, columns>>

\* line 100: .reshape(self.n, 1, 1) of the (k) array of minima fails unless
\* the store's n is its number of slots.
reshape_raises(self_n, k) == self_n # k

\* g.open_zero() on the selected store
SelOpenZero ==
    /\ n > 0
    /\ calls < MaxCalls
    /\ sel.mode # "none"
    /\ reshape_raises(sel.n, Len(sel.key))
    /\ op' = Call("open_zero", "G", SelStore.active_games, <<>>, <<>>, <<>>,
              TRUE, {})
    /\ calls' = calls + 1
    /\ UNCHANGED <<mines_n, n, old, rows, columns, mines, open_cells, flags, active_games, won,
                   last_opened, last_flagged, sel>>

OrigMove == MoveReq(SelReq)

NextSelect ==
    \/ OrigMove \/ OpenZero \/ RandomOpen \/ RandomFlags \/ Reset
    \/ GetItem \/ SelMove \/ SelRandomOpen \/ SelRandomFlags \/ SelReset
    \/ SelOpenZero

\* The selection is explored on two-slot batches of 1 x 2 boards.
InitSelect == Init /\ n = 2 /\ rows = 1

SpecSelect == InitSelect /\ [][NextSelect]_vars

\* ====================================================== the earlier engine
\* src/game.py.  Its arrays are flat: fields, states (n, size); scores,
\* active_grids, won, last_opened (n).  visible_grids, the display copy of the
\* opened numbers, is read by pyplot_games only and is not carried.

\* Game._compute_grids, lines 35-43, for one slot
compute_grids(f, R, C) ==
    [x \in Cells(R, C) |->
        LET r == x \div C
            c == x % C
            offs == (-1 .. 1) \X (-1 .. 1)
        IN IF x \in f THEN -1
           ELSE Cardinality({o \in offs :
                                PadShift(f, r, c, o[1], o[2], R, C) = 1})]

\* Game.reset, lines 15-27, with the placement _compute_fields drew
old_reset(k, R, C, m, f) ==
    [n |-> k, rows |-> R, columns |-> C, mines |-> m, fields |-> f,
     states |-> [i \in 1 .. k |-> {}],
     scores |-> [i \in 1 .. k |-> R * C - m],
     mines_scores |-> [i \in 1 .. k |-> m],
     active_grids |-> [i \in 1 .. k |-> TRUE],
     won |-> [i \in 1 .. k |-> FALSE],
     last_opened |-> [i \in 1 .. k |-> -1]]

\* Game._compute_fields, lines 29-33: np.random.choice without replacement
Placements(k, R, C, m) ==
    [1 .. k -> {f \in SUBSET Cells(R, C) : Cardinality(f) = m}]

\* Game.open, lines 45-61.  c has one cell per active slot; flags has one
\* boolean per active slot (the default False is all FALSE).
old_open(g, c, flg) ==
    LET act0 == g.active_grids
        k == CountTrue(act0)
        fact == Compress(g.fields, act0)
        wrong == [j \in 1 .. k |-> flg[j] # (c[j] \in fact[j])]
        correct == [j \in 1 .. k |-> ~wrong[j]]
        act1 == MaskAssign(act0, act0, correct)
        st == [i \in 1 .. g.n |->
                  IF act1[i] THEN g.states[i] \cup {c[Rank(act0, i)]}
                  ELSE g.states[i]]
        anyflag == \E j \in 1 .. k : flg[j]
        fc == Compress(flg, correct)
        sc == [i \in 1 .. g.n |->
                  IF ~act1[i] THEN g.scores[i]
                  ELSE IF anyflag
                  THEN g.scores[i] - (IF fc[Rank(act1, i)] THEN 0 ELSE 1)
                  ELSE g.scores[i] - 1]
        ms == [i \in 1 .. g.n |->
                  IF act1[i] /\ anyflag /\ fc[Rank(act1, i)]
                  THEN g.mines_scores[i] - 1 ELSE g.mines_scores[i]]
        w == [i \in 1 .. g.n |-> sc[i] = 0]
    IN [g EXCEPT !.last_opened = MaskAssign(g.last_opened, act0, c),
                 !.states = st, !.scores = sc, !.mines_scores = ms,
                 !.won = w,
                 !.active_grids = [i \in 1 .. g.n |-> act1[i] /\ ~w[i]]]

\* ------------------------------------------------------------ the cascade
\* A frontier cell is <<slot, row, column>> in the coordinates of the padded
\* grids: the board is rows 1..R, columns 1..C, ringed by a border of -1.
InBoard(t, R, C) == t[2] >= 1 /\ t[2] <= R /\ t[3] >= 1 /\ t[3] <= C

Flat(t, C) == (t[2] - 1) * C + (t[3] - 1)

\* pad_state[t], line 79 (ps: slot -> opened cells)
PadState(ps, t, R, C) ==
    IF InBoard(t, R, C) THEN (IF Flat(t, C) \in ps[t[1]] THEN 1 ELSE 0) ELSE -1

\* pad_grid[t], line 83
PadGrid(grids, t, R, C) ==
    IF InBoard(t, R, C) THEN grids[t[1]][Flat(t, C)] ELSE -1

\* An index past the padded array: numpy raises IndexError.  Rows and columns
\* of a frontier cell are at least 1, so no index is negative.
OutOfRange(t, R, C) == t[2] > R + 1 \/ t[3] > C + 1

\* The 9 offsets in the order of the two loops of lines 76-77.
Offsets ==
    <<<<-1, -1>>, <<-1, 0>>, <<-1, 1>>, <<0, -1>>, <<0, 0>>, <<0, 1>>,
      <<1, -1>>, <<1, 0>>, <<1, 1>>>>

\* line 66-68: the start chosen by default in one slot, the first cell of
\* least |number|, kept when its number is 0
default_start(grid, R, C) ==
    LET abs(x) == IF x < 0 THEN -x ELSE x
        c == CHOOSE x \in Cells(R, C) :
                \A y \in Cells(R, C) :
                    abs(grid[x]) < abs(grid[y])
                    \/ (abs(grid[x]) = abs(grid[y]) /\ x <= y)
    IN IF grid[c] = 0 THEN {c} ELSE {}

\* line 75: flat cell -> padded coordinates
to_padded(s, flat, R, C) == <<s, (flat \div R) + 1, (flat % C) + 1>>

\* line 82: self.scores[t[0]] -= 1 is a buffered fancy-index update: a slot
\* named several times in t[0] is decremented once.
dec_scores(sc, slots) ==
    [i \in DOMAIN sc |-> IF i \in slots THEN sc[i] - 1 ELSE sc[i]]

RECURSIVE open_zero_layer(_, _, _, _, _, _)
RECURSIVE open_zero_offsets(_, _, _, _, _, _, _)

\* lines 83-86: recurse on the newly opened zeros zs, if any
open_zero_recurse(zs, st, d, grids, R, C) ==
    IF zs # {} THEN open_zero_layer(zs, st, d + 1, grids, R, C) ELSE st

\* lines 81-83: mark the cells to_open, charge their slots, find the zeros
open_zero_mark(to_open, st, d, grids, R, C) ==
    open_zero_recurse(
        {t \in to_open : PadGrid(grids, t, R, C) = 0},
        [st EXCEPT
            !.ps = [i \in DOMAIN st.ps |->
                      st.ps[i] \cup {Flat(t, C) : t \in {u \in to_open : u[1] = i}}],
            !.sc = dec_scores(st.sc, {t[1] : t \in to_open})],
        d, grids, R, C)

\* lines 79-80 for one offset: of the neighbours T of the frontier, those
\* whose pad_state is 0.
\* st: ps (pad_state), sc (self.scores), raised, depth (deepest layer so
\* far), front (cells that have been in a frontier), requeued (cells put in
\* a frontier again).
open_zero_expand(T, st, d, grids, R, C) ==
    open_zero_mark({t \in T : PadState(st.ps, t, R, C) = 0}, st, d, grids, R, C)

\* line 78: t = (c[0], c[1]+i, c[2]+j)
Shifted(c, o) == {<<x[1], x[2] + o[1], x[3] + o[2]>> : x \in c}

\* lines 76-86 for the offsets idx..9 of one layer with frontier c
open_zero_offsets(c, idx, st, d, grids, R, C) ==
    IF idx > 9 \/ st.raised THEN st
    ELSE IF \E t \in Shifted(c, Offsets[idx]) : OutOfRange(t, R, C)
    THEN [st EXCEPT !.raised = TRUE]
    ELSE open_zero_offsets(c, idx + 1,
            open_zero_expand(Shifted(c, Offsets[idx]), st, d, grids, R, C),
            d, grids, R, C)

\* one call of open_zero with frontier c at nesting depth d
open_zero_layer(c, st, d, grids, R, C) ==
    open_zero_offsets(c, 1,
        [st EXCEPT !.depth = IF d > @ THEN d ELSE @,
                   !.requeued = @ \cup (c \cap st.front),
                   !.front = @ \cup c],
        d, grids, R, C)

\* lines 65-68: the frontier of open_zero(): the default start of every slot
\* that has a zero
default_c(g, grids) ==
    {p \in (1 .. g.n) \X Cells(g.rows, g.columns) :
        p[2] \in default_start(grids[p[1]], g.rows, g.columns)}

\* lines 87-91 after the cascade st, or the state an IndexError leaves
open_zero_finish(g, st) ==
    IF st.raised
    THEN [g EXCEPT !.scores = st.sc]
    ELSE [g EXCEPT !.states = st.ps, !.scores = st.sc,
                   !.active_grids = [i \in 1 .. g.n |-> st.sc[i] > 0],
                   !.won = [i \in 1 .. g.n |-> st.sc[i] = 0]]

\* what open_zero leaves and what it did: g the object, start the frontier
\* it began with, depth and requeued as in st
open_zero_result(g, c0, st) ==
    [g |-> open_zero_finish(g, st), start |-> c0, raised |-> st.raised,
     depth |-> st.depth, requeued |-> st.requeued]

\* lines 69-86: pad the grids, turn the start cells c0 into padded
\* coordinates, run the layers
open_zero_from(g, c0, grids) ==
    open_zero_result(g, c0,
        open_zero_layer({to_padded(p[1], p[2], g.rows, g.columns) : p \in c0},
                        [ps |-> g.states, sc |-> g.scores, raised |-> FALSE,
                         depth |-> 0, front |-> {}, requeued |-> {}],
                        1, grids, g.rows, g.columns))

\* self.grids, as reset computed it
old_grids(g) ==
    [i \in 1 .. g.n |-> compute_grids(g.fields[i], g.rows, g.columns)]

\* Game.open_zero, lines 63-91.  start: the set of <<slot, flat cell>> given
\* as c; dflt: c=None.
old_open_zero(g, dflt, start) ==
    open_zero_from(g, IF dflt THEN default_c(g, old_grids(g)) ELSE start,
                   old_grids(g))

\* ------------------------------------------------- the earlier engine runs
NoNew ==
    /\ n = 0 /\ rows = 1 /\ columns = 1 /\ mines_n = <<>>
    /\ mines = <<>> /\ open_cells = <<>> /\ flags = <<>>
    /\ active_games = <<>> /\ won = <<>>
    /\ last_opened = <<>> /\ last_flagged = <<>>
    /\ sel = NoSel

NewUnchanged ==
    UNCHANGED <<mines_n, n, rows, columns, mines, open_cells, flags, active_games, won,
                last_opened, last_flagged, sel>>

OldCall(name, c, flg, r) ==
    [name |-> name, c |-> c, flags |-> flg,
     raised |-> r.raised, depth |-> r.depth, requeued |-> r.requeued]

Quiet == [raised |-> FALSE, depth |-> 0, requeued |-> {}]

\* Game.__init__, lines 6-13, for the configurations cfgs and at most
\* maxm hazards
OldInitOn(cfgs, maxm) ==
    /\ NoNew
    /\ \E cfg \in cfgs :
        \E m \in 0 .. maxm :
            /\ m <= cfg[2] * cfg[3]
            /\ \E f \in Placements(cfg[1], cfg[2], cfg[3], m) :
                old = old_reset(cfg[1], cfg[2], cfg[3], m, f)
    /\ op = OldCall("init", <<>>, <<>>, Quiet)
    /\ calls = 0

OldInit == OldInitOn(OldConfigs, MaxMines)

\* game.open(c) and game.open(c, flags)
OldOpen ==
    /\ old.n > 0
    /\ calls < MaxCalls
    /\ LET k == CountTrue(old.active_grids)
       IN \E c \in [1 .. k -> Cells(old.rows, old.columns)] :
            \E flg \in [1 .. k -> BOOLEAN] :
                /\ old' = old_open(old, c, flg)
                /\ op' = OldCall("open", c, flg, Quiet)
    /\ calls' = calls + 1
    /\ NewUnchanged

\* game.open_zero() and game.open_zero(c) with one start cell in some slots
OpenZeroCall ==
    /\ \E dflt \in BOOLEAN :
        \E pick \in [1 .. old.n -> Cells(old.rows, old.columns) \cup {-1}] :
        \E r \in {old_open_zero(old, dflt,
                     {p \in (1 .. old.n) \X Cells(old.rows, old.columns) :
                        ~dflt /\ pick[p[1]] = p[2]})} :
           /\ dflt => \A i \in 1 .. old.n : pick[i] = -1
           /\ old' = r.g
           /\ op' = OldCall("open_zero", r.start, dflt, r)
    /\ calls' = calls + 1
    /\ NewUnchanged

OldOpenZero == old.n > 0 /\ calls < MaxCalls /\ OpenZeroCall

\* game.reset() and game.reset(n): a new placement of the same number of
\* hazards, in the same number of slots (n=None) or in n slots (lines 16-18)
OldReset ==
    /\ old.n > 0
    /\ calls < MaxCalls
    /\ \E k \in {old.n} \cup ResetSizes(old.rows, old.columns) :
        \E f \in Placements(k, old.rows, old.columns, old.mines) :
            old' = old_reset(k, old.rows, old.columns, old.mines, f)
    /\ op' = OldCall("reset", <<>>, <<>>, Quiet)
    /\ calls' = calls + 1
    /\ NewUnchanged

OldNext == OldOpen \/ OldOpenZero \/ OldReset

OldSpec == OldInit /\ [][OldNext]_vars

\* One cascade on a freshly constructed board.
CascadeInit == OldInitOn(CascadeConfigs, CascadeMines)

CascadeOnce == calls = 0 /\ OpenZeroCall

CascadeSpec == CascadeInit /\ [][CascadeOnce]_vars

\* Both engines: a behaviour is one of the newer engine, with the moves of
\* SelReq cells, or one of OldSpec.
AllInit == Init \/ OldInit

AllNext ==
    \/ OrigMove \/ OpenZero \/ RandomOpen \/ RandomFlags \/ Reset
    \/ OldOpen \/ OldOpenZero \/ OldReset

AllSpec == AllInit /\ [][AllNext]_vars

\* -------------------------------------------- construction with any count
\* Game._compute_fields, src/game.py line 32: np.random.choice(size, mines,
\* replace=False) raises ValueError for a negative sample size and for one
\* larger than the population.
compute_fields_raises(size, m) == m < 0 \/ m > size

\* Game(rows, columns, mines, n) of src/game.py with any count: reset raises
\* out of the constructor (no object is made; old keeps the arguments), or
\* the board is built.
OldConstruct ==
    /\ NoNew
    /\ \E cfg \in OldConfigs :
        \E m \in (-CountSlack) .. (cfg[2] * cfg[3] + CountSlack) :
            IF compute_fields_raises(cfg[2] * cfg[3], m)
            THEN /\ old = [n |-> 0, rows |-> cfg[2], columns |-> cfg[3],
                           mines |-> m]
                 /\ op = OldCall("init", <<>>, <<>>,
                                 [Quiet EXCEPT !.raised = TRUE])
            ELSE /\ \E f \in Placements(cfg[1], cfg[2], cfg[3], m) :
                        old = old_reset(cfg[1], cfg[2], cfg[3], m, f)
                 /\ op = OldCall("init", <<>>, <<>>, Quiet)
    /\ calls = 0

\* Game(rows, columns, mines_n, n) of src/src/game.py with any count.
NewConstruct == InitOn(-CountSlack, CountSlack)

ConstructInit == NewConstruct \/ OldConstruct

ConstructNext == OrigMove \/ RandomOpen \/ RandomFlags \/ Reset \/ OldReset

ConstructSpec == ConstructInit /\ [][ConstructNext]_vars

\* ================================================================ claims
\* A step that is the call `name` on the constructed store.
StepOf(name) == op'.name = name /\ op'.store = "A" /\ calls' = calls + 1

\* The row of the request that belongs to slot i, active at call time.
Row(i) == Rank(active_games, i)

\* C1: for every slot active when move is called, the slot is rejected (its
\* returned boolean is false) iff its reveal request holds a hazard or its
\* mark request holds a non-hazard; a rejected slot is inactive after the
\* call and its revealed and marked sets are as before the call.
C1_RejectedIffIncorrect ==
    [][StepOf("move") =>
        \A i \in 1 .. n :
            active_games[i] =>
                /\ ~op'.ret[Row(i)] <=>
                       \/ op'.to_open[Row(i)] \cap mines[i] # {}
                       \/ op'.to_flag[Row(i)] \ mines[i] # {}
                /\ ~op'.ret[Row(i)] =>
                       /\ ~active_games'[i]
                       /\ open_cells'[i] = open_cells[i]
                       /\ flags'[i] = flags[i]]_vars

\* A move rejected slot 1 for a mark on a safe cell, although its reveal
\* request was safe, and accepted slot 2.
C1_Witness ==
    /\ op.name = "move" /\ n = 2 /\ Len(op.ret) = 2
    /\ ~op.ret[1] /\ op.ret[2]
    /\ op.to_flag[1] \ mines[1] # {}
    /\ op.to_open[1] # {} /\ op.to_open[1] \cap mines[1] = {}
    /\ ~active_games[1] /\ open_cells[1] = {}

\* C2: for every slot active when move is called and whose request is
\* correct, revealed becomes the old revealed united with the reveal request
\* given for that slot and marked the old marked united with the mark request
\* given for that slot, whatever the other slots of the batch do.
C2_AcceptedMerged ==
    [][StepOf("move") =>
        \A i \in 1 .. n :
            (active_games[i] /\ op'.ret[Row(i)]) =>
                /\ open_cells'[i] = open_cells[i] \cup op'.to_open[Row(i)]
                /\ flags'[i] = flags[i] \cup op'.to_flag[Row(i)]]_vars

\* A move rejected slot 1 and accepted slot 2, whose request differs from
\* slot 1's and reveals and marks something.
C2_Witness ==
    /\ op.name = "move" /\ n = 2 /\ Len(op.ret) = 2
    /\ ~op.ret[1] /\ op.ret[2]
    /\ op.to_open[2] # {} /\ op.to_flag[2] # {}
    /\ op.to_open[1] # op.to_open[2]
    /\ open_cells[2] = op.to_open[2] /\ flags[2] = op.to_flag[2]

\* C3: in every reachable state won[i] is true iff every cell of slot i is
\* revealed or is a hazard.
C3_WonIffCovered ==
    \A i \in 1 .. n : won[i] <=> (open_cells[i] \cup mines[i] = All)

\* C4: in every reachable state a slot that is won is not active.
C4_WonNotActive ==
    \A i \in 1 .. n : won[i] => ~active_games[i]

\* C5: the cascade never reveals a hazard cell, whatever the board and the
\* starting cell.
C5_CascadeRevealsNoHazard ==
    (old.n > 0 /\ op.name = "open_zero") =>
        \A i \in 1 .. old.n : old.states[i] \cap old.fields[i] = {}

\* The cells at distance at most 1 of cell x, on the board.
Around(x, R, C) ==
    {y \in Cells(R, C) :
        /\ (y \div C) - (x \div C) \in -1 .. 1
        /\ (y % C) - (x % C) \in -1 .. 1}

RECURSIVE ZeroRegion(_, _, _, _)
\* The 8-connected region of zero cells that holds the zeros Z.
ZeroRegion(Z, grid, R, C) ==
    LET more == {y \in Cells(R, C) :
                    grid[y] = 0 /\ \E x \in Z : y \in Around(x, R, C)}
    IN IF more \subseteq Z THEN Z ELSE ZeroRegion(Z \cup more, grid, R, C)

\* The zero region of the zero cell x with the cells adjacent to it.
Opening(x, grid, R, C) ==
    UNION {Around(z, R, C) : z \in ZeroRegion({x}, grid, R, C)}

\* C6: after the cascade from a zero-valued starting cell on a slot with
\* nothing revealed, the cells revealed in that slot are exactly the maximal
\* 8-connected region of zeros holding the start and the cells adjacent to it.
C6_CascadeRevealsRegion ==
    (old.n > 0 /\ op.name = "open_zero" /\ calls = 1) =>
        \A p \in op.c :
            old_grids(old)[p[1]][p[2]] = 0 =>
                old.states[p[1]] =
                    Opening(p[2], old_grids(old)[p[1]], old.rows, old.columns)

\* C7: across move, open and cascade calls the revealed and marked sets of
\* every slot only grow.
C7_OnlyGrow ==
    [][/\ op'.name \in {"move", "open_zero", "random_open", "random_flags"} =>
            \A i \in 1 .. n :
                open_cells[i] \subseteq open_cells'[i]
                /\ flags[i] \subseteq flags'[i]
       /\ (old.n > 0 /\ op'.name \in {"open", "open_zero"}) =>
            \A i \in 1 .. old.n : old.states[i] \subseteq old'.states[i]]_vars

\* A second move added a cell to a slot that already had one revealed.
C7_Witness ==
    /\ n > 0 /\ calls = 2 /\ op.name = "move"
    /\ \E i \in 1 .. n :
        /\ op.act[i] /\ op.ret[Rank(op.act, i)]
        /\ op.to_open[Rank(op.act, i)] # {}
        /\ op.to_open[Rank(op.act, i)] # open_cells[i]
        /\ op.to_open[Rank(op.act, i)] \subseteq open_cells[i]

\* C8: a move or a cascade on a batch with an inactive slot does not raise,
\* and leaves that slot's revealed, marked, active, lastRevealed and
\* lastMarked as they were.
C8_InactiveSlotTolerated ==
    [][(op'.name \in {"move", "open_zero"} /\ n > 0) =>
        \A i \in 1 .. n :
            ~active_games[i] =>
                /\ ~op'.raised
                /\ open_cells'[i] = open_cells[i]
                /\ flags'[i] = flags[i]
                /\ active_games'[i] = active_games[i]
                /\ last_opened'[i] = last_opened[i]
                /\ last_flagged'[i] = last_flagged[i]]_vars

\* The per-slot state of a store that the claim C9 names.
Mutable(b) ==
    <<b.open_cells, b.flags, b.active_games, b.won, b.last_opened,
      b.last_flagged>>

\* C9: after a selection, a move, cascade or reset on one of the two stores
\* leaves revealed, marked, active, won, lastRevealed and lastMarked of the
\* other unchanged.
C9_SelectionIndependent ==
    [][(sel.mode # "none" /\ op'.name \in {"move", "open_zero", "reset"}) =>
        IF op'.store = "A"
        THEN Mutable(SelStore)' = Mutable(SelStore)
        ELSE Mutable(Store)' = Mutable(Store)]_vars

\* C10: when a move accepted a request for a slot and the slot is still
\* active, the same request for that slot is accepted again and leaves the
\* slot's revealed and marked sets as the first call left them.
C10_MoveIdempotent ==
    [][(StepOf("move") /\ op.name = "move") =>
        \A i \in 1 .. n :
            (/\ active_games[i] /\ op.act[i] /\ op.ret[Rank(op.act, i)]
             /\ op'.to_open[Row(i)] = op.to_open[Rank(op.act, i)]
             /\ op'.to_flag[Row(i)] = op.to_flag[Rank(op.act, i)]) =>
                /\ op'.ret[Row(i)]
                /\ open_cells'[i] = open_cells[i]
                /\ flags'[i] = flags[i]]_vars

\* A move repeated, for a slot, the request that the move before it had
\* been granted, a request that reveals a cell.
C10_Witness ==
    /\ op.name = "move" /\ calls = 2
    /\ \E i \in op.again :
        /\ op.to_open[Rank(op.act, i)] # {}
        /\ open_cells[i] = op.to_open[Rank(op.act, i)]
        /\ flags[i] = op.to_flag[Rank(op.act, i)]

\* The diameter of the earlier engine's board.
Diameter == IF old.rows > old.columns THEN old.rows ELSE old.columns

\* C11: the cascade ends, and the nested layers of recursion it uses are at
\* most the diameter of the board, the larger of rows and columns.
C11_CascadeDepthBounded ==
    (old.n > 0 /\ op.name = "open_zero") => op.depth <= Diameter

\* C18: within one call of the cascade every cell is placed in a frontier at
\* most once; no cell already expanded or revealed, the starting cell
\* included, is queued for expansion again.
C18_FrontierOnce ==
    (old.n > 0 /\ op.name = "open_zero") => op.requeued = {}

\* The hazard counts the constructor was given are all within the board.
CountsValid ==
    IF n > 0
    THEN \A i \in 1 .. n : mines_n[i] \in 0 .. (rows * columns)
    ELSE old.mines \in 0 .. (old.rows * old.columns)

\* C12: construction with a hazard count that is negative or larger than
\* rows*columns for some slot fails; it never yields a board.
C12_BadCountRejected ==
    (op.name = "init" /\ ~CountsValid) => op.raised

\* game.scores() on the constructed store.
Scores == scores(Store, mines_n, n, FALSE, rows * columns)

\* C13: the progress score of a slot is revealedCount / (boardSize -
\* hazardCount) when the slot has a non-hazard cell and 1.0 when every cell
\* of the slot is a hazard; scoring never divides by zero.
C13_ScoreGuarded ==
    n > 0 =>
        /\ ~Scores.raised
        /\ \A i \in 1 .. n :
            LET safe == rows * columns - Cardinality(mines[i])
                v == Scores.val[i]
            IN /\ v.kind = "ratio"
               /\ IF safe > 0
                  THEN v.num * safe = Cardinality(open_cells[i]) * v.den
                  ELSE v.num = v.den

\* The fatal-cell map of slot i of the constructed store: the cells that
\* losing_moves highlights.
Fatal(i) ==
    {x \in All :
        losing_moves(mines[i], last_opened[i], last_flagged[i], All)[x] # 0}

\* C14: after a move the fatal-cell map of a slot holds exactly the cells
\* that made the slot's most recent move incorrect, the hazards it tried to
\* reveal and the non-hazards it tried to mark; it is empty when that move
\* was accepted, and a slot that lost by revealing a hazard is inactive and
\* not won.
C14_FatalCells ==
    [][StepOf("move") =>
        \A i \in 1 .. n :
            IF active_games[i]
            THEN /\ Fatal(i)' = (op'.to_open[Row(i)] \cap mines[i])
                                \cup (op'.to_flag[Row(i)] \ mines[i])
                 /\ op'.ret[Row(i)] => Fatal(i)' = {}
                 /\ op'.to_open[Row(i)] \cap mines[i] # {} =>
                        ~active_games'[i] /\ ~won'[i]
            ELSE Fatal(i)' = Fatal(i)]_vars

\* The hazards among the in-board 8-neighbours of cell x.
HazardsAround(x, f, R, C) == Cardinality((Around(x, R, C) \ {x}) \cap f)

\* C15: on every generated board the neighborCount of a hazard cell is -1
\* and that of any other cell is the number of hazards among its in-board
\* 8-neighbours, with no wrap-around; for _compute_grids and for
\* _compute_number_cells.
C15_NeighborCount ==
    old.n > 0 =>
        \A i \in 1 .. old.n :
            \A x \in Cells(old.rows, old.columns) :
                LET f == old.fields[i]
                    expected == IF x \in f THEN -1
                                ELSE HazardsAround(x, f, old.rows, old.columns)
                IN /\ compute_grids(f, old.rows, old.columns)[x] = expected
                   /\ compute_number_cells(f, old.rows, old.columns)[x]
                        = expected

\* A 3 x 3 board with hazards at the start of the second row and in the last
\* corner: the centre counts 2, and the end of the first row, next to the
\* hazard in flat order only, counts 0.
C15_Witness ==
    /\ old.n > 0 /\ old.rows = 3 /\ old.columns = 3
    /\ old.fields[1] = {3, 8}
    /\ old_grids(old)[1][4] = 2
    /\ old_grids(old)[1][2] = 0
    /\ old_grids(old)[1][3] = -1

\* C16: no cell is both marked and revealed, and the status code that
\* game_state gives a cell is its neighbour count 0..8 when it is revealed,
\* 9 when it is neither revealed nor marked, 10 when it is marked and not
\* revealed.
C16_StatusCodes ==
    \A i \in 1 .. n :
        \A x \in All :
            LET code == game_state(Store, rows, columns, FALSE)[i][x]
            IN /\ ~(x \in open_cells[i] /\ x \in flags[i])
               /\ IF x \in open_cells[i]
                  THEN /\ code \in 0 .. 8
                       /\ code = HazardsAround(x, mines[i], rows, columns)
                  ELSE IF x \in flags[i] THEN code = 10 ELSE code = 9

\* Slot 1 has a revealed cell, coded by its count, and a marked cell, coded
\* 10; slot 2 has a cell neither revealed nor marked, coded 9.
C16_Witness ==
    /\ n = 2
    /\ \E x \in open_cells[1] :
        game_state(Store, rows, columns, FALSE)[1][x] = 1
    /\ \E x \in flags[1] :
        game_state(Store, rows, columns, FALSE)[1][x] = 10
    /\ \E x \in All :
        game_state(Store, rows, columns, FALSE)[2][x] = 9

\* C17: after move returns, lastRevealed and lastMarked of every slot active
\* at call time are the raw reveal and mark requests given for that slot,
\* accepted or not; those of a slot inactive at call time are what they
\* were, the request of the slot's own last attempted move.
C17_LastRequestRecorded ==
    [][StepOf("move") =>
        \A i \in 1 .. n :
            IF active_games[i]
            THEN /\ last_opened'[i] = op'.to_open[Row(i)]
                 /\ last_flagged'[i] = op'.to_flag[Row(i)]
            ELSE /\ last_opened'[i] = last_opened[i]
                 /\ last_flagged'[i] = last_flagged[i]]_vars

\* A second move was made while slot 1 was inactive, still holding the
\* request that lost it, and was rejected for slot 2, which holds the
\* rejected request.
C17_Witness ==
    /\ op.name = "move" /\ calls = 2 /\ n = 2
    /\ op.act = <<FALSE, TRUE>> /\ op.ret = <<FALSE>>
    /\ last_opened[1] \cap mines[1] # {}
    /\ last_flagged[2] = op.to_flag[1] /\ last_flagged[2] \ mines[2] # {}
    /\ last_opened[2] = op.to_open[1]
    /\ last_opened[1] # last_opened[2]

\* C19: once a slot is inactive, no later move, open or cascade call on its
\* store makes it active again; only reset does.
C19_InactiveAbsorbing ==
    [][/\ op'.name \in {"move", "open_zero", "random_open", "random_flags"} =>
            \A i \in 1 .. n : ~active_games[i] => ~active_games'[i]
       /\ (old.n > 0 /\ op'.name \in {"open", "open_zero"}) =>
            \A i \in 1 .. old.n :
                ~old.active_grids[i] => ~old'.active_grids[i]]_vars

\* g.scores() on the selected store.
SelScores == scores(SelStore, sel.mines_n, sel.n, FALSE, rows * columns)

\* C20: the store a selection returns is consistent: its n is the number of
\* selected slots and the leading dimension of each of its arrays, so
\* scores and open_zero on it range over exactly the selected slots.
C20_SelectionConsistent ==
    sel.mode # "none" =>
        /\ sel.n = Len(sel.key)
        /\ \A a \in {SelStore.mines, SelStore.open_cells, SelStore.flags,
                     SelStore.last_opened, SelStore.last_flagged} :
                Len(a) = sel.n
        /\ Len(SelStore.active_games) = sel.n
        /\ Len(SelStore.won) = sel.n
        /\ Len(sel.mines_n) = sel.n
        /\ ~SelScores.raised /\ Len(SelScores.val) = Len(sel.key)
        /\ ~reshape_raises(sel.n, Len(sel.key))

=============================================================================
